---------------------------- MODULE Spec2Model ----------------------------
(***************************************************************************)
(* Model of scripts/merge_small_areas.py: the batch job that relabels the  *)
(* pubs of small areas (fewer than min_pubs pubs with coordinates) into    *)
(* the nearest large area and writes the new area/borough to the store.    *)
(*                                                                         *)
(* Python values are records [t, s, v]: None, a str (a sequence of         *)
(* one-character strings) or a number (whole degrees).  A dict is a        *)
(* sequence of [k, v] entries in insertion order, which is the order       *)
(* Python iterates it in.                                                  *)
(***************************************************************************)
EXTENDS Integers, Sequences, FiniteSets, TLC

\* ------------------------------------------------------------ Python values

PyNone == [t |-> "None", s |-> <<>>, v |-> 0]
Str(chars) == [t |-> "str", s |-> chars, v |-> 0]
Num(n) == [t |-> "num", s |-> <<>>, v |-> n]

\* bool(x): None, "" and 0 are falsy.
Truthy(x) ==
    CASE x.t = "None" -> FALSE
      [] x.t = "str" -> x.s # <<>>
      [] OTHER -> x.v # 0

Whitespace == {" "}
Digits == <<"0", "1", "2", "3", "4", "5", "6", "7", "8", "9">>

RECURSIVE lstrip(_)
lstrip(s) ==
    IF s # <<>> /\ Head(s) \in Whitespace THEN lstrip(Tail(s)) ELSE s

RECURSIVE rstrip(_)
rstrip(s) ==
    IF s # <<>> /\ s[Len(s)] \in Whitespace
    THEN rstrip(SubSeq(s, 1, Len(s) - 1))
    ELSE s

\* str.strip()
strip(s) == rstrip(lstrip(s))

LowerOf(c) ==
    CASE c = "A" -> "a" [] c = "B" -> "b" [] c = "C" -> "c"
      [] c = "N" -> "n" [] c = "O" -> "o" [] c = "E" -> "e"
      [] c = "S" -> "s" [] c = "T" -> "t"
      [] OTHER -> c

\* A variant of lower that leaves the case alone.
SameCase(s) == s

\* str.lower()
lower(s) == [i \in 1..Len(s) |-> LowerOf(s[i])]

\* ord(c) of the characters the labels use: str comparison is by code point.
CodePoint(c) ==
    CASE c = " " -> 32
      [] c = "A" -> 65 [] c = "B" -> 66 [] c = "C" -> 67 [] c = "E" -> 69
      [] c = "N" -> 78 [] c = "O" -> 79 [] c = "S" -> 83 [] c = "T" -> 84
      [] c = "a" -> 97 [] c = "b" -> 98 [] c = "c" -> 99 [] c = "e" -> 101
      [] c = "n" -> 110 [] c = "o" -> 111 [] c = "s" -> 115 [] c = "t" -> 116
      [] OTHER -> 120

\* s < t for two str values (lexicographic by code point).
RECURSIVE StrLess(_, _)
StrLess(s, t) ==
    IF t = <<>> THEN FALSE
    ELSE IF s = <<>> THEN TRUE
    ELSE IF CodePoint(Head(s)) # CodePoint(Head(t))
         THEN CodePoint(Head(s)) < CodePoint(Head(t))
         ELSE StrLess(Tail(s), Tail(t))

DigitValue(c) == CHOOSE d \in 0..9 : Digits[d + 1] = c

IsDigit(c) == \E d \in 0..9 : Digits[d + 1] = c

RECURSIVE DigitsValue(_)
DigitsValue(s) ==
    IF s = <<>> THEN 0
    ELSE 10 * DigitsValue(SubSeq(s, 1, Len(s) - 1)) + DigitValue(s[Len(s)])

\* float(x) raises TypeError for None and ValueError for text that is no number.
FloatRaises(x) ==
    CASE x.t = "None" -> TRUE
      [] x.t = "str" ->
           LET u == strip(x.s) IN u = <<>> \/ \E i \in 1..Len(u) : ~IsDigit(u[i])
      [] OTHER -> FALSE

\* float(x) where it does not raise.
Float(x) == IF x.t = "str" THEN DigitsValue(strip(x.s)) ELSE x.v

\* ------------------------------------------------------------------- dicts

DictKeys(d) == [i \in 1..Len(d) |-> d[i].k]

DictHas(d, key) == \E i \in 1..Len(d) : d[i].k = key

DictGet(d, key) == d[CHOOSE i \in 1..Len(d) : d[i].k = key].v

\* d[key] = value: a new key goes to the end, an old one keeps its place.
DictSet(d, key, value) ==
    IF DictHas(d, key)
    THEN [i \in 1..Len(d) |-> IF d[i].k = key THEN [k |-> key, v |-> value] ELSE d[i]]
    ELSE Append(d, [k |-> key, v |-> value])

\* max(seq, key=...): the first element whose key is maximal.
FirstMaxIndex(keys) ==
    CHOOSE i \in 1..Len(keys) :
        /\ \A j \in 1..Len(keys) : keys[j] <= keys[i]
        /\ \A j \in 1..(i - 1) : keys[j] < keys[i]

RECURSIVE SumSeq(_)
SumSeq(s) == IF s = <<>> THEN 0 ELSE Head(s) + SumSeq(Tail(s))

MaxSeq(s) == s[FirstMaxIndex(s)]

\* ------------------------------------------------------- haversine_distance
\* Coordinates are whole degrees; trigonometry is fixed point, four digits.

Scale == 10000

\* round(Scale * sin(d/2)) for d = 0..7 degrees
SinHalfTable == <<0, 87, 175, 262, 349, 436, 523, 610>>

\* round(Scale * cos(d)) for d = 0..7 degrees
CosTable == <<10000, 9998, 9994, 9986, 9976, 9962, 9945, 9925>>

Abs(n) == IF n < 0 THEN -n ELSE n

SinHalf(d) == IF d < 0 THEN -SinHalfTable[-d + 1] ELSE SinHalfTable[d + 1]

Cos(d) == CosTable[Abs(d) + 1]

RECURSIVE Newton(_, _)
Newton(n, r) ==
    LET next == (r + n \div r) \div 2
    IN  IF next >= r THEN r ELSE Newton(n, next)

\* floor(sqrt(n))
ISqrt(n) == IF n <= 0 THEN 0 ELSE Newton(n, n)

\* Earth's radius in kilometers
R == 6371

\* A variant of haversine_distance: cos(lat1) twice, cos(lat2) never.
haversine_one_cos(lat1, lon1, lat2, lon2) ==
    LET dlat == lat2 - lat1
        dlon == lon2 - lon1
        a == SinHalf(dlat) * SinHalf(dlat)
             + (((Cos(lat1) * Cos(lat1)) \div 100000)
                * (SinHalf(dlon) * SinHalf(dlon))) \div 1000
        y == ISqrt(a)
        x == ISqrt(Scale * Scale - a)
        t == (y * Scale) \div x
        atan == t - (t * t * t) \div (3 * Scale * Scale)
    IN  (R * 2 * atan) \div Scale

haversine_distance(lat1, lon1, lat2, lon2) ==
    LET dlat == lat2 - lat1
        dlon == lon2 - lon1
        \* a, scaled by Scale^2
        a == SinHalf(dlat) * SinHalf(dlat)
             + (((Cos(lat1) * Cos(lat2)) \div 100000)
                * (SinHalf(dlon) * SinHalf(dlon))) \div 1000
        y == ISqrt(a)
        x == ISqrt(Scale * Scale - a)
        \* atan2(y, x) for x > 0, scaled by Scale: t - t^3/3
        t == (y * Scale) \div x
        atan == t - (t * t * t) \div (3 * Scale * Scale)
    IN  (R * 2 * atan) \div Scale


\* Distances between the grid's coordinates, computed once.
GridDeg == 0..7

DistanceTable ==
    [c \in GridDeg \X GridDeg \X GridDeg \X GridDeg |->
        haversine_distance(c[1], c[2], c[3], c[4])]

distance_km(lat1, lon1, lat2, lon2) == DistanceTable[<<lat1, lon1, lat2, lon2>>]

\* float('inf')
Infinity == 1000000

\* ---------------------------------------------------------- fold over a list

RECURSIVE group_loop(_, _)
\* The loop of group_pubs_by_area over the pubs still to visit.
group_loop(pubs, area_groups) ==
    IF pubs = <<>> THEN area_groups
    ELSE
        LET pub == Head(pubs)
            area == IF Truthy(pub.area) THEN Str(strip(pub.area.s)) ELSE PyNone
            skip_area == ~Truthy(area) \/ lower(area.s) = <<"n", "o", "n", "e">>
            valid == /\ Truthy(pub.lat) /\ Truthy(pub.lon)
                     /\ ~FloatRaises(pub.lat) /\ ~FloatRaises(pub.lon)
            members == IF DictHas(area_groups, area.s)
                       THEN DictGet(area_groups, area.s) ELSE <<>>
        IN  IF skip_area \/ ~valid
            THEN group_loop(Tail(pubs), area_groups)
            ELSE group_loop(Tail(pubs),
                            DictSet(area_groups, area.s, Append(members, pub)))

\* Group pubs by their area: a dict from the stripped label to its pubs.
group_pubs_by_area(pubs) == group_loop(pubs, <<>>)

\* A variant of IsSmall: <= instead of <.
IsSmallOrEqual(pubs_in_area, threshold) == Len(pubs_in_area) <= threshold

\* Lines 234-241: an area with fewer than min_pubs pubs is small.
IsSmall(pubs_in_area, threshold) == Len(pubs_in_area) < threshold

RECURSIVE SelectEntries(_, _, _)
SelectEntries(d, threshold, small) ==
    IF d = <<>> THEN <<>>
    ELSE IF IsSmall(Head(d).v, threshold) = small
         THEN <<Head(d)>> \o SelectEntries(Tail(d), threshold, small)
         ELSE SelectEntries(Tail(d), threshold, small)

\* A variant of SmallAreas: the loop of line 275 visits every area.
EveryArea(groups, threshold) == groups

SmallAreas(groups, threshold) == SelectEntries(groups, threshold, TRUE)

\* A variant of LargeAreas: every area counts as large.
AllAreas(groups, threshold) == groups

LargeAreas(groups, threshold) == SelectEntries(groups, threshold, FALSE)

RECURSIVE Flatten(_)
\* Lines 264-267: the pubs of the large areas, area after area in dict order.
Flatten(d) == IF d = <<>> THEN <<>> ELSE Head(d).v \o Flatten(Tail(d))

RECURSIVE borough_loop(_, _)
borough_loop(pubs, borough_counts) ==
    IF pubs = <<>> THEN borough_counts
    ELSE
        LET pub == Head(pubs)
            borough == IF Truthy(pub.borough) THEN Str(strip(pub.borough.s)) ELSE PyNone
            counted == Truthy(borough) /\ lower(borough.s) # <<"n", "o", "n", "e">>
            n == IF DictHas(borough_counts, borough.s)
                 THEN DictGet(borough_counts, borough.s) ELSE 0
        IN  IF counted
            THEN borough_loop(Tail(pubs), DictSet(borough_counts, borough.s, n + 1))
            ELSE borough_loop(Tail(pubs), borough_counts)

\* A variant of get_area_borough: the first borough counted, not the most common.
first_area_borough(area, groups) ==
    IF ~DictHas(groups, area) THEN PyNone
    ELSE
        LET borough_counts == borough_loop(DictGet(groups, area), <<>>)
        IN  IF borough_counts # <<>> THEN Str(borough_counts[1].k) ELSE PyNone

\* The most common borough of an area's pubs, or None.
get_area_borough(area, groups) ==
    IF ~DictHas(groups, area) THEN PyNone
    ELSE
        LET borough_counts == borough_loop(DictGet(groups, area), <<>>)
        IN  IF borough_counts # <<>>
            THEN Str(borough_counts[FirstMaxIndex(
                        [i \in 1..Len(borough_counts) |-> borough_counts[i].v])].k)
            ELSE PyNone

\* Variants of IsCloser: > and <= instead of <.
IsFarther(distance, closest_distance) == distance > closest_distance

IsCloserOrEqual(distance, closest_distance) == distance <= closest_distance

\* Line 195: a candidate replaces the closest one so far.
IsCloser(distance, closest_distance) == distance < closest_distance

NoPub == [id |-> 0, area |-> PyNone, borough |-> PyNone, lat |-> PyNone, lon |-> PyNone]

\* closest_pub = None, closest_distance = float('inf')
NoResult == [found |-> FALSE, closest_pub |-> NoPub, distance |-> Infinity]

RECURSIVE closest_loop(_, _, _, _)
closest_loop(pub, others, exclude_area, best) ==
    IF others = <<>> THEN best
    ELSE
        LET other_pub == Head(others)
            other_area == strip(other_pub.area.s)
            skip == \/ other_pub.id = pub.id
                    \/ other_area = exclude_area
                    \/ ~Truthy(other_pub.lat) \/ ~Truthy(other_pub.lon)
                    \/ FloatRaises(other_pub.lat) \/ FloatRaises(other_pub.lon)
            distance == distance_km(Float(pub.lat), Float(pub.lon),
                                    Float(other_pub.lat), Float(other_pub.lon))
        IN  IF ~skip /\ IsCloser(distance, best.distance)
            THEN closest_loop(pub, Tail(others), exclude_area,
                     [found |-> TRUE, closest_pub |-> other_pub, distance |-> distance])
            ELSE closest_loop(pub, Tail(others), exclude_area, best)

\* The closest pub of a large area and its distance, or no result.
find_closest_large_area_pub(pub, large_area_pubs, exclude_area) ==
    closest_loop(pub, large_area_pubs, exclude_area, NoResult)

\* Skip reasons (lines 299, 315, 340).
NoLargePub == "No valid large area pub found"
RangeExceeded == "Distance exceeds range limit"
NoTarget == "No valid target area found"

RECURSIVE vote_loop(_, _, _, _)
\* Lines 281-300: every pub of the small area votes for the area of its
\* closest large-area pub; a pub without one is skipped on its own.
vote_loop(small_pubs, large_area_pubs, small_area, acc) ==
    IF small_pubs = <<>> THEN acc
    ELSE
        LET pub == Head(small_pubs)
            result == find_closest_large_area_pub(pub, large_area_pubs, small_area)
            target_area == strip(result.closest_pub.area.s)
            votes == IF DictHas(acc.closest_areas, target_area)
                     THEN DictGet(acc.closest_areas, target_area) ELSE <<>>
            vote == [pub |-> pub, distance |-> result.distance,
                     closest_pub |-> result.closest_pub.id]
        IN  IF result.found
            THEN vote_loop(Tail(small_pubs), large_area_pubs, small_area,
                     [acc EXCEPT !.closest_areas =
                          DictSet(acc.closest_areas, target_area, Append(votes, vote))])
            ELSE vote_loop(Tail(small_pubs), large_area_pubs, small_area,
                     [acc EXCEPT !.skipped =
                          Append(acc.skipped, [area |-> small_area, pubs |-> <<pub>>,
                                               per_pub |-> TRUE, reason |-> NoLargePub])])

\* Variants of ChooseTarget: min instead of max, and a max that keeps the
\* last maximum.
ChooseFewestVotes(closest_areas) ==
    closest_areas[FirstMaxIndex(
        [i \in 1..Len(closest_areas) |-> 0 - Len(closest_areas[i].v)])].k

ChooseLastOfMost(closest_areas) ==
    closest_areas[CHOOSE i \in 1..Len(closest_areas) :
        /\ \A j \in 1..Len(closest_areas) :
               Len(closest_areas[j].v) <= Len(closest_areas[i].v)
        /\ \A j \in (i + 1)..Len(closest_areas) :
               Len(closest_areas[j].v) < Len(closest_areas[i].v)].k

\* Line 305: the area most pubs are closest to (max keeps the first maximum).
ChooseTarget(closest_areas) ==
    closest_areas[FirstMaxIndex(
        [i \in 1..Len(closest_areas) |-> Len(closest_areas[i].v)])].k

\* Line 306: the pubs the merge relabels.
PubsToMerge(closest_areas, target_area) == DictGet(closest_areas, target_area)

\* A variant of OutOfRange: >= instead of >.
OutOfRangeOrEqual(max_distance, range) ==
    range.t # "None" /\ max_distance >= Float(range)

\* Line 311: the merge is skipped when the range is set and exceeded.
OutOfRange(max_distance, range) == range.t # "None" /\ max_distance > Float(range)

\* Lines 307-331: the merge of the pubs closest to target_area, or the skip
\* of the area when they are out of range.  avg_distance is kept as
\* sum_distance over count; a vote keeps the id of the closest pub where the
\* source keeps its name.
merge_or_skip(small_area, small_pubs, voted, target_area, pubs_to_merge, groups, range) ==
    IF OutOfRange(MaxSeq([i \in 1..Len(pubs_to_merge) |-> pubs_to_merge[i].distance]), range)
    THEN [closest_areas |-> voted.closest_areas, target_area |-> target_area,
          merges |-> <<>>,
          skipped |-> Append(voted.skipped,
                             [area |-> small_area, pubs |-> small_pubs,
                              per_pub |-> FALSE, reason |-> RangeExceeded])]
    ELSE [closest_areas |-> voted.closest_areas, target_area |-> target_area,
          merges |-> << [from_area |-> small_area,
                         to_area |-> target_area,
                         to_borough |-> get_area_borough(target_area, groups),
                         pubs |-> [i \in 1..Len(pubs_to_merge) |-> pubs_to_merge[i].pub],
                         sum_distance |->
                             SumSeq([i \in 1..Len(pubs_to_merge) |-> pubs_to_merge[i].distance]),
                         max_distance |->
                             MaxSeq([i \in 1..Len(pubs_to_merge) |-> pubs_to_merge[i].distance]),
                         count |-> Len(pubs_to_merge)] >>,
          skipped |-> voted.skipped]

\* Lines 303-306: the target of the area and the pubs that go there.
merge_into(small_area, small_pubs, voted, target_area, groups, range) ==
    merge_or_skip(small_area, small_pubs, voted, target_area,
                  PubsToMerge(voted.closest_areas, target_area), groups, range)

\* Lines 302-342: what the votes of a small area lead to.
decide(small_area, small_pubs, voted, groups, range) ==
    IF voted.closest_areas = <<>>
    THEN [closest_areas |-> <<>>, target_area |-> <<>>, merges |-> <<>>,
          skipped |-> Append(voted.skipped,
                             [area |-> small_area, pubs |-> small_pubs,
                              per_pub |-> FALSE, reason |-> NoTarget])]
    ELSE merge_into(small_area, small_pubs, voted, ChooseTarget(voted.closest_areas),
                    groups, range)

\* Lines 275-344: one iteration of the loop over the small areas.  The result
\* holds what the iteration appends to merges and skipped, and its locals.
process_small_area(small_area, small_pubs, large_area_pubs, groups, range) ==
    decide(small_area, small_pubs,
           vote_loop(small_pubs, large_area_pubs, small_area,
                     [closest_areas |-> <<>>, skipped |-> <<>>]),
           groups, range)

\* ------------------------------------------------------------------ bounds

\* Runs of the script in one behaviour.
MaxRuns == 2
\* Requests of the store that fail in one behaviour.
MaxFetchFaults == 1
MaxUpdateFaults == 1
\* The largest threshold min_pubs.
MaxMinPubs == 4

\* Rows per page: PAGE_SIZE is 750 in the source and is scaled here to the
\* modelled table, which then spans several pages.
PAGE_SIZE == 4

\* ------------------------------------------------------------------- state

VARIABLES
    store,          \* the table pubs_all: a sequence of rows, in the order it returns them
    min_pubs, max_range_km, dry_run,    \* the arguments of merge_small_areas
    pc,             \* where the run is
    start, rows, fetch_failed,          \* fetch_pubs
    pubs, area_groups, small_areas, large_areas,
    next_small,     \* the loop over small_areas
    closest_areas, target_area,         \* locals of the last iteration
    merges, skipped,
    next_merge, next_pub, updated, failed,  \* the loops that apply the merges
    calls,          \* the update requests of this run, in order
    store0,         \* the table when the run began
    runs, last_run, \* runs begun, and how the one before this one ended
    faults,         \* failed requests so far
    report,         \* the numbers of the merge summary, once printed
    notice          \* what the run printed when it returned before the plan

vars == <<store, min_pubs, max_range_km, dry_run, pc, start, rows, fetch_failed,
          pubs, area_groups, small_areas, large_areas, next_small, closest_areas,
          target_area, merges, skipped, next_merge, next_pub, updated, failed,
          calls, store0, runs, last_run, faults, report, notice>>

\* Nothing printed yet.
NoReport == [printed |-> FALSE, areas_to_merge |-> 0, areas_skipped |-> 0,
             total_pubs |-> 0]

\* Lines 350-352: the numbers the merge summary prints.
summary(merge_list, skip_list) ==
    [printed |-> TRUE,
     areas_to_merge |-> Len(merge_list),
     areas_skipped |-> Len(skip_list),
     total_pubs |-> SumSeq([i \in 1..Len(merge_list) |-> merge_list[i].count])]

\* The messages of the early returns (lines 224, 257, 261).
NoNotice == ""
NoPubsFound == "No pubs found. Exiting."
NoSmallAreas == "No small areas to merge."
NoLargeAreas == "No large areas found. Cannot merge small areas."

NoRun == [ran |-> FALSE, dry_run |-> FALSE, fetch_failed |-> FALSE,
          updated |-> 0, failed |-> 0, merges |-> <<>>]

\* ------------------------------------------------------------ initial states

Pub(area, borough, lat, lon) ==
    [id |-> 0, area |-> area, borough |-> borough, lat |-> lat, lon |-> lon]

\* The rows of a table get their ids in order.
WithIds(seq) == [i \in 1..Len(seq) |-> [seq[i] EXCEPT !.id = i]]

AreaA == <<"A">>
AreaB == <<"B">>

\* An anchor area: k pubs of one label at one place, the first one possibly elsewhere.
Block(label, borough, k, lat, first_lat) ==
    [i \in 1..k |-> Pub(Str(label), Str(borough), Num(IF i = 1 THEN first_lat ELSE lat), Num(1))]

\* Two anchor areas of k pubs each: A in the south and B in the north.  B may
\* have its first pub at A's place, and then either area may come first in
\* the table.
AnchorLayouts(k) ==
    { Block(AreaA, <<"c">>, k, 1, 1) \o Block(AreaB, <<"e">>, k, 6, 6),
      Block(AreaA, <<"c">>, k, 1, 1) \o Block(AreaB, <<"e">>, k, 6, 1),
      Block(AreaB, <<"e">>, k, 6, 1) \o Block(AreaA, <<"c">>, k, 1, 1) }

\* Pubs with clean data between the anchors.
CleanPub(label, lat) == Pub(Str(label), PyNone, Num(lat), Num(1))

CleanPubs == { CleanPub(label, lat) : label \in {<<"S">>, <<"T">>}, lat \in {2, 3, 5} }

OddAreas ==
    { PyNone, Str(<<>>), Str(<<" ">>), Str(<<"n", "o", "n", "e">>),
      Str(<<" ", "N", "o", "n", "E">>), Str(<<" ", "S">>) }

OddCoordinates ==
    { PyNone, Num(0), Str(<<"2">>), Str(<<"x">>), Str(<<>>) }

\* Pubs one field of which is missing, empty, zero or text.
OddPubs ==
    { Pub(area, PyNone, Num(2), Num(1)) : area \in OddAreas }
    \cup { Pub(Str(<<"S">>), PyNone, lat, Num(1)) : lat \in OddCoordinates }
    \cup { Pub(Str(<<"S">>), PyNone, Num(2), lon) : lon \in OddCoordinates }

SeqsOf(S, n) == [1..n -> S]

\* Tables of clean data: two anchor areas of exactly k pubs each, then k - 1
\* more pubs: k - 2 of area S and one of area S or T.
CleanTables(k) ==
    { WithIds(anchors \o first \o <<last>>) :
        anchors \in AnchorLayouts(k),
        first \in SeqsOf({ CleanPub(<<"S">>, lat) : lat \in {2, 3, 5} }, k - 2),
        last \in CleanPubs }

\* Tables with odd data: one anchor area of k pubs, an odd pub and a clean one.
OddTables(k) ==
    { WithIds(Block(AreaA, <<"c">>, k, 1, 1) \o <<odd, other>>) :
        odd \in OddPubs, other \in { CleanPub(<<"S">>, 2), CleanPub(<<"T">>, 3) } }

\* What the borough of a pub of a large area may hold.
OddBoroughs ==
    { PyNone, Str(<<" ", "N", "o", "n", "E">>), Str(<<"c">>), Str(<<" ", "c">>), Str(<<"e">>) }

\* Tables with odd boroughs: one large area of three pubs, any boroughs, and
\* a pub of a small area with or without a borough of its own.
BoroughTables ==
    { WithIds(<< Pub(Str(AreaA), b[1], Num(1), Num(1)),
                 Pub(Str(AreaA), b[2], Num(1), Num(1)),
                 Pub(Str(AreaA), b[3], Num(1), Num(1)),
                 Pub(Str(<<"S">>), own, Num(2), Num(1)) >>) :
        b \in SeqsOf(OddBoroughs, 3), own \in { PyNone, Str(<<"w">>) } }

\* Tables without a large area: two pubs of small areas, the first one with or
\* without coordinates; and the table without a row.
SmallOnlyTables ==
    { WithIds(<<p, q>>) :
        p \in CleanPubs \cup { Pub(Str(<<"S">>), PyNone, PyNone, Num(1)) },
        q \in { CleanPub(<<"S">>, 2), CleanPub(<<"T">>, 3) } }
    \cup { <<>> }

\* Tables of pubs apart in latitude and longitude: a large area of two pubs
\* at one place and a pub of a small area at another.
GridPlaces == {1, 3, 6} \X {1, 3, 6}

GridTables ==
    { WithIds(<< Pub(Str(AreaA), Str(<<"c">>), Num(a[1]), Num(a[2])),
                 Pub(Str(AreaA), Str(<<"c">>), Num(a[1]), Num(a[2])),
                 Pub(Str(<<"S">>), PyNone, Num(s[1]), Num(s[2])) >>) :
        a \in GridPlaces, s \in GridPlaces }

\* --range: not given, or the distance of one degree of latitude.
Ranges == { PyNone, Num(110) }

InitRun ==
    /\ pc = "idle"
    /\ dry_run = FALSE
    /\ start = 0 /\ rows = <<>> /\ fetch_failed = FALSE
    /\ pubs = <<>> /\ area_groups = <<>> /\ small_areas = <<>> /\ large_areas = <<>>
    /\ next_small = 1 /\ closest_areas = <<>> /\ target_area = <<>>
    /\ merges = <<>> /\ skipped = <<>>
    /\ next_merge = 1 /\ next_pub = 1 /\ updated = 0 /\ failed = 0
    /\ calls = <<>>
    /\ store0 = store
    /\ runs = 0 /\ last_run = NoRun
    /\ faults = [fetch |-> 0, update |-> 0]
    /\ report = NoReport
    /\ notice = NoNotice

Init ==
    /\ min_pubs \in 2..MaxMinPubs
    /\ max_range_km \in Ranges
    /\ store \in (IF min_pubs = 2 THEN OddTables(min_pubs) \cup GridTables
                            ELSE CleanTables(min_pubs))
                  \cup (IF min_pubs = 3 THEN BoroughTables \cup SmallOnlyTables ELSE {})
    /\ InitRun

\* ----------------------------------------------------------------- actions

Min(a, b) == IF a < b THEN a ELSE b

\* The script is started: merge_small_areas(min_pubs, max_range_km, dry_run).
StartRun ==
    /\ pc \in {"idle", "done"}
    /\ runs < MaxRuns
    /\ \E flag \in BOOLEAN : dry_run' = flag
    /\ last_run' = IF pc = "idle" THEN last_run
                   ELSE [ran |-> TRUE, dry_run |-> dry_run, fetch_failed |-> fetch_failed,
                         updated |-> updated, failed |-> failed, merges |-> merges]
    /\ runs' = runs + 1
    /\ pc' = "fetch"
    /\ start' = 0 /\ rows' = <<>> /\ fetch_failed' = FALSE
    /\ pubs' = <<>> /\ area_groups' = <<>> /\ small_areas' = <<>> /\ large_areas' = <<>>
    /\ next_small' = 1 /\ closest_areas' = <<>> /\ target_area' = <<>>
    /\ merges' = <<>> /\ skipped' = <<>>
    /\ next_merge' = 1 /\ next_pub' = 1 /\ updated' = 0 /\ failed' = 0
    /\ calls' = <<>>
    /\ store0' = store
    /\ report' = NoReport
    /\ notice' = NoNotice
    /\ UNCHANGED <<store, min_pubs, max_range_km, faults>>

\* A variant of is_last_page: <= instead of <.
is_last_page_or_full(chunk) == Len(chunk) <= PAGE_SIZE

\* Line 93: a page shorter than PAGE_SIZE is the last one.
is_last_page(chunk) == Len(chunk) < PAGE_SIZE

\* A variant of next_start: the next page begins at the last row of this one.
next_start_overlapping(from) == from + PAGE_SIZE - 1

\* Line 95: the next page begins where this one ended.
next_start(from) == from + PAGE_SIZE

\* fetch_pubs, one pass of its loop: the page arrives.
FetchPage ==
    /\ pc = "fetch"
    /\ LET chunk == SubSeq(store, start + 1, Min(start + PAGE_SIZE, Len(store)))
       IN  IF chunk = <<>>
           THEN /\ pubs' = rows /\ pc' = "group"
                /\ UNCHANGED <<rows, start>>
           ELSE /\ rows' = rows \o chunk
                /\ IF is_last_page(chunk)
                   THEN /\ pubs' = rows' /\ pc' = "group" /\ start' = start
                   ELSE /\ start' = next_start(start) /\ pc' = "fetch" /\ pubs' = pubs
    /\ UNCHANGED <<notice, report, store, min_pubs, max_range_km, dry_run, fetch_failed, area_groups,
                   small_areas, large_areas, next_small, closest_areas, target_area,
                   merges, skipped, next_merge, next_pub, updated, failed, calls,
                   store0, runs, last_run, faults>>

\* A variant of rows_after_error: the rows received are thrown away.
no_rows_after_error(received) == <<>>

\* Lines 97-100: what fetch_pubs returns when a request raises.
rows_after_error(received) == received

\* fetch_pubs, one pass of its loop: the request raises, the rows so far are returned.
FetchRaises ==
    /\ pc = "fetch"
    /\ faults.fetch < MaxFetchFaults
    /\ faults' = [faults EXCEPT !.fetch = @ + 1]
    /\ fetch_failed' = TRUE
    /\ pubs' = rows_after_error(rows) /\ pc' = "group"
    /\ UNCHANGED <<notice, report, store, min_pubs, max_range_km, dry_run, start, rows, area_groups,
                   small_areas, large_areas, next_small, closest_areas, target_area,
                   merges, skipped, next_merge, next_pub, updated, failed, calls,
                   store0, runs, last_run>>

\* A variant of no_pubs: the run goes on without pubs.
some_pubs(fetched) == FALSE

\* Line 223: nothing was fetched.
no_pubs(fetched) == Len(fetched) = 0

\* Lines 256-262: the run returns when there is no small area, or else when
\* there is no large area, and says which.
early_return(small, large) ==
    IF Len(small) = 0 THEN NoSmallAreas
    ELSE IF Len(large) = 0 THEN NoLargeAreas
    ELSE NoNotice

\* Lines 219-262: grouping, the split into small and large areas, the early returns.
GroupAndClassify ==
    /\ pc = "group"
    /\ IF no_pubs(pubs)
       THEN /\ pc' = "done"
            /\ notice' = NoPubsFound
            /\ UNCHANGED <<area_groups, small_areas, large_areas>>
       ELSE /\ area_groups' = group_pubs_by_area(pubs)
            /\ small_areas' = SmallAreas(area_groups', min_pubs)
            /\ large_areas' = LargeAreas(area_groups', min_pubs)
            /\ notice' = early_return(small_areas', large_areas')
            /\ pc' = IF notice' # NoNotice THEN "done" ELSE "small"
    /\ UNCHANGED <<report, store, min_pubs, max_range_km, dry_run, start, rows, fetch_failed,
                   pubs, next_small, closest_areas, target_area, merges, skipped,
                   next_merge, next_pub, updated, failed, calls, store0, runs,
                   last_run, faults>>

\* A variant of all_large_area_pubs: the pubs of the merges decided so far
\* count as pubs of the area they go to.
large_pubs_with_merged(large, merge_list) ==
    Flatten(large)
    \o Flatten([i \in 1..Len(merge_list) |->
                   [k |-> merge_list[i].to_area,
                    v |-> [j \in 1..Len(merge_list[i].pubs) |->
                              [merge_list[i].pubs[j] EXCEPT
                                   !.area = Str(merge_list[i].to_area)]]]])

\* Lines 264-267: the pubs of the large areas are listed once, before the
\* loop over the small areas; the merges decided in the loop add nothing.
all_large_area_pubs(large, merge_list) == Flatten(large)

\* Lines 275-344: the next small area is decided.
ProcessSmallArea ==
    /\ pc = "small"
    /\ next_small <= Len(small_areas)
    /\ LET entry == small_areas[next_small]
           done == process_small_area(entry.k, entry.v,
                                      all_large_area_pubs(large_areas, merges),
                                      area_groups, max_range_km)
       IN  /\ closest_areas' = done.closest_areas
           /\ target_area' = done.target_area
           /\ merges' = merges \o done.merges
           /\ skipped' = skipped \o done.skipped
    /\ next_small' = next_small + 1
    /\ UNCHANGED <<notice, report, store, min_pubs, max_range_km, dry_run, pc, start, rows,
                   fetch_failed, pubs, area_groups, small_areas, large_areas,
                   next_merge, next_pub, updated, failed, calls, store0, runs,
                   last_run, faults>>

\* A variant of AfterSummary: the changes are applied whatever the flag.
AlwaysApply(flag) == "apply"

\* Lines 380 and 413: the changes are applied if not dry_run.
AfterSummary(flag) == IF flag THEN "done" ELSE "apply"

\* Lines 346-381: the plan is printed; a dry run ends here.
Summary ==
    /\ pc = "small"
    /\ next_small > Len(small_areas)
    /\ pc' = AfterSummary(dry_run)
    /\ report' = summary(merges, skipped)
    /\ UNCHANGED <<notice, store, min_pubs, max_range_km, dry_run, start, rows, fetch_failed,
                   pubs, area_groups, small_areas, large_areas, next_small,
                   closest_areas, target_area, merges, skipped, next_merge, next_pub,
                   updated, failed, calls, store0, runs, last_run, faults>>

\* A variant of Payload: the borough is written whatever it is.
PayloadWithBorough(new_area, new_borough) ==
    [area |-> Str(new_area), borough |-> new_borough, has_borough |-> TRUE]

\* Lines 106-108: the fields an update writes.
Payload(new_area, new_borough) ==
    [area |-> Str(new_area),
     borough |-> IF Truthy(new_borough) THEN new_borough ELSE PyNone,
     has_borough |-> Truthy(new_borough)]

\* A variant of Updated: the area is written, the borough never.
UpdatedAreaOnly(table, pub_id, payload) ==
    [i \in 1..Len(table) |->
        IF table[i].id = pub_id THEN [table[i] EXCEPT !.area = payload.area] ELSE table[i]]

\* A variant of Updated: the update reaches every row that has the area of
\* the row with the id.
UpdatedWholeArea(table, pub_id, payload) ==
    [i \in 1..Len(table) |->
        IF \E n \in 1..Len(table) : table[n].id = pub_id /\ table[n].area = table[i].area
        THEN [table[i] EXCEPT !.area = payload.area,
                              !.borough = IF payload.has_borough
                                          THEN payload.borough ELSE @]
        ELSE table[i]]

\* A variant of Updated: the row is replaced by the payload, not patched.
UpdatedAsReplaced(table, pub_id, payload) ==
    [i \in 1..Len(table) |->
        IF table[i].id = pub_id
        THEN [id |-> pub_id, area |-> payload.area, borough |-> payload.borough,
              lat |-> PyNone, lon |-> PyNone]
        ELSE table[i]]

\* A variant of Updated: the borough is written, the area never.
UpdatedBoroughOnly(table, pub_id, payload) ==
    [i \in 1..Len(table) |->
        IF table[i].id = pub_id
        THEN [table[i] EXCEPT !.borough = IF payload.has_borough
                                          THEN payload.borough ELSE @]
        ELSE table[i]]

\* The table after update(payload).eq("id", pub_id).
Updated(table, pub_id, payload) ==
    [i \in 1..Len(table) |->
        IF table[i].id = pub_id
        THEN [table[i] EXCEPT !.area = payload.area,
                              !.borough = IF payload.has_borough
                                          THEN payload.borough ELSE @]
        ELSE table[i]]

\* A variant of AfterUpdate: a request that raises ends the run.
AbortOnRaise(answer) == IF answer = "raises" THEN "done" ELSE "apply"

\* Lines 109-113 and 395-403: whatever the store answers, the loop goes on
\* (update_pub_area_and_borough catches what the request raises).
AfterUpdate(answer) == "apply"

\* Lines 386-403: one pass of the inner loop, update_pub_area_and_borough
\* included.  The store answers with the row, with no row, or the request raises.
ApplyUpdate ==
    /\ pc = "apply"
    /\ next_merge <= Len(merges)
    /\ LET merge == merges[next_merge]
           pub == merge.pubs[next_pub]
           payload == Payload(merge.to_area, merge.to_borough)
       IN  /\ \E answer \in {"row", "no row", "raises"} :
                /\ answer # "row" => faults.update < MaxUpdateFaults
                /\ faults' = IF answer = "row" THEN faults
                             ELSE [faults EXCEPT !.update = @ + 1]
                /\ store' = IF answer = "row" THEN Updated(store, pub.id, payload)
                            ELSE store
                /\ updated' = IF answer = "row" THEN updated + 1 ELSE updated
                /\ failed' = IF answer = "row" THEN failed ELSE failed + 1
                /\ calls' = Append(calls, [id |-> pub.id, payload |-> payload,
                                           ok |-> answer = "row"])
                /\ pc' = AfterUpdate(answer)
           /\ IF next_pub < Len(merge.pubs)
              THEN next_pub' = next_pub + 1 /\ next_merge' = next_merge
              ELSE next_pub' = 1 /\ next_merge' = next_merge + 1
    /\ UNCHANGED <<notice, report, min_pubs, max_range_km, dry_run, start, rows, fetch_failed,
                   pubs, area_groups, small_areas, large_areas, next_small,
                   closest_areas, target_area, merges, skipped, store0, runs, last_run>>

\* Lines 407-412: the final summary.
FinalSummary ==
    /\ pc = "apply"
    /\ next_merge > Len(merges)
    /\ pc' = "done"
    /\ UNCHANGED <<notice, report, store, min_pubs, max_range_km, dry_run, start, rows, fetch_failed,
                   pubs, area_groups, small_areas, large_areas, next_small,
                   closest_areas, target_area, merges, skipped, next_merge, next_pub,
                   updated, failed, calls, store0, runs, last_run, faults>>

Next ==
    \/ StartRun
    \/ FetchPage
    \/ FetchRaises
    \/ GroupAndClassify
    \/ ProcessSmallArea
    \/ Summary
    \/ ApplyUpdate
    \/ FinalSummary

Spec == Init /\ [][Next]_vars

\* The loop of fetch_pubs goes on: a request that is sent returns.
FairSpec == Spec /\ WF_vars(FetchPage)

\* ------------------------------------------------------- what the claims use

\* The run has grouped and split the pubs it fetched.
Classified == pubs # <<>> /\ pc \in {"small", "apply", "done"}

\* Every small area has been decided: the plan is complete.
PlanComplete ==
    /\ Classified
    /\ small_areas # <<>> /\ large_areas # <<>>
    /\ next_small > Len(small_areas)

\* The loop over the small areas has decided at least one of them; its locals
\* closest_areas and target_area are those of the last one decided.
Deciding == pc = "small" /\ next_small > 1

SeqToSet(seq) == { seq[i] : i \in 1..Len(seq) }

LargePubs == Flatten(large_areas)

Dist(p, q) == distance_km(Float(p.lat), Float(p.lon), Float(q.lat), Float(q.lon))

\* What the search returns for pub r of the small area with the given label.
Nearest(r, label) == find_closest_large_area_pub(r, LargePubs, label)

\* The pubs of a small area (by position) whose closest large-area pub is of area `to`.
Voters(entry, to) ==
    { i \in 1..Len(entry.v) :
        LET result == Nearest(entry.v[i], entry.k)
        IN  result.found /\ strip(result.closest_pub.area.s) = to }

VoteCount(entry, to) == Cardinality(Voters(entry, to))

LargeLabels == SeqToSet(DictKeys(large_areas))

LastDecided == small_areas[next_small - 1]

\* The areas with the most votes of a small area.
TiedLabels(entry) ==
    { l \in LargeLabels :
        /\ VoteCount(entry, l) >= 1
        /\ \A m \in LargeLabels : VoteCount(entry, m) <= VoteCount(entry, l) }

\* The first pub of a small area (by position) that votes for area `to`.
FirstVoter(entry, to) ==
    CHOOSE i \in Voters(entry, to) : \A j \in Voters(entry, to) : i <= j

\* The sum of the distances of the votes closest_areas holds for a label.
VoteSum(label) ==
    LET votes == DictGet(closest_areas, label)
    IN  SumSeq([i \in 1..Len(votes) |-> votes[i].distance])

VoteLen(label) == Len(DictGet(closest_areas, label))

\* The average distance of the votes for l is less than (equal to) that for m.
AvgLess(l, m) == VoteSum(l) * VoteLen(m) < VoteSum(m) * VoteLen(l)

AvgEqual(l, m) == VoteSum(l) * VoteLen(m) = VoteSum(m) * VoteLen(l)

\* The pubs of merges, as a set of ids.
MergedIds ==
    UNION { { merges[i].pubs[j].id : j \in 1..Len(merges[i].pubs) } : i \in 1..Len(merges) }

CalledIds == { calls[i].id : i \in 1..Len(calls) }

\* The area the loop chooses for a small area (<<>> when no pub of it votes).
TargetOf(entry) ==
    process_small_area(entry.k, entry.v, LargePubs, area_groups, max_range_km).target_area

\* The distance from pub r to the closest pub of a large area.
DistToArea(r, label) ==
    LET members == DictGet(large_areas, label)
    IN  CHOOSE d \in { Dist(r, members[i]) : i \in 1..Len(members) } :
            \A j \in 1..Len(members) : d <= Dist(r, members[j])

\* ------------------------------------------------------------------ claims

\* C1 (as claimed): after an apply-mode run in which every update succeeded, a
\* second run over the resulting table, with the same min_pubs and
\* max_range_km and both fetches complete, plans no merge.
C1_SecondRunPlansNothing ==
    ( /\ last_run.ran /\ ~last_run.dry_run
      /\ last_run.failed = 0 /\ ~last_run.fetch_failed
      /\ ~fetch_failed )
    => merges = <<>>

\* C2 (as claimed): with a range set, a small area one of whose pubs is
\* farther from the chosen area than the range has none of its pubs in the
\* plan and none updated.
C2_RangeGateAllOrNothing ==
    (PlanComplete /\ max_range_km.t # "None") =>
        \A e \in SeqToSet(small_areas) :
            ( /\ TargetOf(e) # <<>>
              /\ \E i \in 1..Len(e.v) :
                     DistToArea(e.v[i], TargetOf(e)) > Float(max_range_km) )
            => \A i \in 1..Len(e.v) :
                   e.v[i].id \notin MergedIds /\ e.v[i].id \notin CalledIds

\* C3 (as claimed): a merge holds every pub of its small area that has a
\* closest large-area pub, not only those closest to the chosen area.
C3_MergeHoldsWholeArea ==
    \A i \in 1..Len(merges) :
        LET members == DictGet(small_areas, merges[i].from_area)
        IN  \A j \in 1..Len(members) :
                Nearest(members[j], merges[i].from_area).found
                => members[j] \in SeqToSet(merges[i].pubs)

\* C4: the area chosen for a small area with votes has at least one vote and
\* at least as many votes (pubs of the small area whose closest large-area pub
\* is of that area) as any other area.
C4_TargetHasMostVotes ==
    (Deciding /\ closest_areas # <<>>) =>
        /\ VoteCount(LastDecided, target_area) >= 1
        /\ \A label \in LargeLabels :
               VoteCount(LastDecided, target_area) >= VoteCount(LastDecided, label)

\* C4's case: the first pub of the small area voted for an area that got
\* fewer votes than the chosen one.
C4_Witness ==
    /\ Deciding /\ closest_areas # <<>>
    /\ closest_areas[1].k # target_area
    /\ VoteCount(LastDecided, closest_areas[1].k) >= 1
    /\ VoteCount(LastDecided, target_area) > VoteCount(LastDecided, closest_areas[1].k)

\* C5 (amended): when several areas tie on votes, the chosen one is the tied
\* area that got its first vote earliest in the order of the small area's
\* pubs; average distance and the order of the labels play no part.
C5_TieGoesToFirstVoted ==
    (Deciding /\ closest_areas # <<>>) =>
        /\ target_area \in TiedLabels(LastDecided)
        /\ \A l \in TiedLabels(LastDecided) :
               FirstVoter(LastDecided, target_area) <= FirstVoter(LastDecided, l)

\* C5 (as claimed): among the areas tied on votes the chosen one has the
\* smallest average distance and, the averages being equal, the smallest label.
C5_TieByAverageThenLabel ==
    (Deciding /\ closest_areas # <<>>) =>
        /\ target_area \in TiedLabels(LastDecided)
        /\ \A l \in TiedLabels(LastDecided) \ {target_area} :
               \/ AvgLess(target_area, l)
               \/ AvgEqual(target_area, l) /\ StrLess(target_area, l)

\* C5's case: two areas tie on votes and the chosen one is not the one the
\* average distance or the order of the labels would give.
C5_Witness ==
    /\ Deciding /\ closest_areas # <<>>
    /\ \E l \in TiedLabels(LastDecided) \ {target_area} :
           /\ FirstVoter(LastDecided, target_area) < FirstVoter(LastDecided, l)
           /\ \/ AvgLess(l, target_area)
              \/ AvgEqual(l, target_area) /\ StrLess(l, target_area)

\* C6: for a pub of a small area the search returns a pub of a large area, of
\* another label, and its distance, and no pub of a large area is closer; it
\* returns nothing only when there is no large-area pub.
C6_ClosestIsNearest ==
    pc = "small" =>
        \A a \in 1..Len(small_areas) : \A j \in 1..Len(small_areas[a].v) :
            LET r == small_areas[a].v[j]
                result == Nearest(r, small_areas[a].k)
            IN  /\ result.found <=> LargePubs # <<>>
                /\ result.found =>
                       /\ result.closest_pub \in SeqToSet(LargePubs)
                       /\ strip(result.closest_pub.area.s) # small_areas[a].k
                       /\ result.distance = Dist(r, result.closest_pub)
                       /\ \A i \in 1..Len(LargePubs) :
                              Dist(r, LargePubs[i]) >= result.distance

\* C6's case: the pub returned is not the first large-area pub, which is
\* farther away.
C6_Witness ==
    /\ pc = "small"
    /\ \E a \in 1..Len(small_areas) : \E j \in 1..Len(small_areas[a].v) :
           LET r == small_areas[a].v[j]
               result == Nearest(r, small_areas[a].k)
           IN  /\ result.found
               /\ result.closest_pub # LargePubs[1]
               /\ Dist(r, LargePubs[1]) > result.distance

\* The row of a pub in the rows fetched.
RowOf(p) == CHOOSE i \in 1..Len(pubs) : pubs[i] = p

\* The row of the first pub grouped under a label.
FirstRowOf(label) ==
    LET members == SeqToSet(DictGet(area_groups, label))
    IN  CHOOSE i \in 1..Len(pubs) :
            pubs[i] \in members /\ \A j \in 1..(i - 1) : pubs[j] \notin members

\* p comes before q: areas in the order their first grouped pub was fetched,
\* pubs of one area in the order fetched.
FetchedBefore(p, q) ==
    IF strip(p.area.s) = strip(q.area.s)
    THEN RowOf(p) < RowOf(q)
    ELSE FirstRowOf(strip(p.area.s)) < FirstRowOf(strip(q.area.s))

\* p comes before q: areas in the order of their labels, pubs of one area in
\* the order fetched.
SortedBefore(p, q) ==
    IF strip(p.area.s) = strip(q.area.s)
    THEN RowOf(p) < RowOf(q)
    ELSE StrLess(strip(p.area.s), strip(q.area.s))

\* The large-area pubs at the least distance from r.
Ties(r) ==
    LET away == [i \in 1..Len(LargePubs) |-> Dist(r, LargePubs[i])]
        least == CHOOSE d \in SeqToSet(away) : \A i \in 1..Len(away) : d <= away[i]
    IN  { LargePubs[i] : i \in { n \in 1..Len(away) : away[n] = least } }

\* C7 (amended): of several large-area pubs at the same least distance the
\* search returns the first one, the large areas taken in the order in which
\* the first grouped pub of each was fetched and the pubs of an area in the
\* order fetched.
C7_TieGoesToFirstFetched ==
    pc = "small" =>
        \A a \in 1..Len(small_areas) : \A j \in 1..Len(small_areas[a].v) :
            LET r == small_areas[a].v[j]
                result == Nearest(r, small_areas[a].k)
            IN  result.found =>
                    /\ result.closest_pub \in Ties(r)
                    /\ \A m \in Ties(r) \ {result.closest_pub} :
                           FetchedBefore(result.closest_pub, m)

\* C7 (as claimed): the same, the large areas taken in the order of their labels.
C7_TieGoesToFirstSorted ==
    pc = "small" =>
        \A a \in 1..Len(small_areas) : \A j \in 1..Len(small_areas[a].v) :
            LET r == small_areas[a].v[j]
                result == Nearest(r, small_areas[a].k)
            IN  result.found =>
                    /\ result.closest_pub \in Ties(r)
                    /\ \A m \in Ties(r) \ {result.closest_pub} :
                           SortedBefore(result.closest_pub, m)

\* C7's case: pubs of two large areas are at the same least distance and the
\* one returned is of the area whose label sorts last.
C7_Witness ==
    /\ pc = "small"
    /\ \E a \in 1..Len(small_areas) : \E j \in 1..Len(small_areas[a].v) :
           LET r == small_areas[a].v[j]
               result == Nearest(r, small_areas[a].k)
           IN  /\ result.found
               /\ \E m \in Ties(r) :
                      StrLess(strip(m.area.s), strip(result.closest_pub.area.s))

\* The spellings of "none" in any letter case.
NoneSpellings ==
    { <<n, o, m, e>> : n \in {"n", "N"}, o \in {"o", "O"}, m \in {"n", "N"}, e \in {"e", "E"} }

\* The label of a pub is missing, empty or blank, or spells "none".
NoLabel(p) ==
    \/ p.area.t # "str"
    \/ \A i \in 1..Len(p.area.s) : p.area.s[i] \in Whitespace
    \/ strip(p.area.s) \in NoneSpellings

\* A coordinate is present and is a number or the text of one.
Numeric(x) == x.t # "None" /\ ~FloatRaises(x)

\* The pubs grouped under any label.
Grouped == UNION { SeqToSet(area_groups[i].v) : i \in 1..Len(area_groups) }

\* The pubs grouped under a label.
GroupOf(label) ==
    IF DictHas(area_groups, label) THEN SeqToSet(DictGet(area_groups, label)) ELSE {}

\* C8 (as claimed): a pub with a usable label is grouped under its trimmed
\* label if and only if its latitude and longitude are both present and
\* numeric, zero included; any other pub is in no group.
C8_GroupedIffNumeric ==
    Classified =>
        \A i \in 1..Len(pubs) :
            LET p == pubs[i]
                usable == ~NoLabel(p) /\ Numeric(p.lat) /\ Numeric(p.lon)
            IN  /\ usable => p \in GroupOf(strip(p.area.s))
                /\ ~usable => p \notin Grouped

\* The pubs the votes of the last small area decided name as closest.
VotedFor ==
    UNION { { closest_areas[i].v[j].closest_pub : j \in 1..Len(closest_areas[i].v) } :
            i \in 1..Len(closest_areas) }

\* C9: a pub without a label (missing, empty, blank, or "none" in any letter
\* case) is in no group, in no merge, is never the closest large-area pub of
\* a vote, and is never updated.
C9_NoLabelLeftAlone ==
    Classified =>
        \A i \in 1..Len(pubs) :
            NoLabel(pubs[i]) =>
                /\ pubs[i] \notin Grouped
                /\ pubs[i].id \notin MergedIds
                /\ pubs[i].id \notin VotedFor
                /\ pubs[i].id \notin CalledIds
                /\ \A n \in 1..Len(store) : store[n].id = pubs[i].id => store[n] = pubs[i]

\* C9's case: the run fetched a pub with coordinates whose label spells
\* "none" in mixed case, and has updated another pub.
C9_Witness ==
    /\ pc = "done" /\ updated > 0
    /\ \E i \in 1..Len(pubs) :
           /\ NoLabel(pubs[i]) /\ pubs[i].area.t = "str"
           /\ strip(pubs[i].area.s) \notin {<<>>, <<"n", "o", "n", "e">>}
           /\ Numeric(pubs[i].lat) /\ Numeric(pubs[i].lon)

\* C10: every group is either small (fewer than min_pubs pubs) or large (at
\* least min_pubs), never both, with the pubs it was grouped with; a label
\* without a grouped pub is in neither.
C10_SmallOrLarge ==
    (Classified /\ area_groups # <<>>) =>
        /\ \A i \in 1..Len(area_groups) :
               LET g == area_groups[i]
               IN  /\ Len(g.v) >= 1
                   /\ Len(g.v) < min_pubs =>
                          /\ DictHas(small_areas, g.k) /\ DictGet(small_areas, g.k) = g.v
                          /\ ~DictHas(large_areas, g.k)
                   /\ Len(g.v) >= min_pubs =>
                          /\ DictHas(large_areas, g.k) /\ DictGet(large_areas, g.k) = g.v
                          /\ ~DictHas(small_areas, g.k)
        /\ \A l \in SeqToSet(DictKeys(small_areas)) \cup SeqToSet(DictKeys(large_areas)) :
               DictHas(area_groups, l)
        /\ Len(small_areas) + Len(large_areas) = Len(area_groups)

\* C10's case: one group has exactly min_pubs pubs, another min_pubs - 1, and
\* a label of the table has no pub with coordinates.
C10_Witness ==
    /\ Classified
    /\ \E i \in 1..Len(large_areas) : Len(large_areas[i].v) = min_pubs
    /\ \E i \in 1..Len(small_areas) : Len(small_areas[i].v) = min_pubs - 1
    /\ \E i \in 1..Len(pubs) :
           /\ ~NoLabel(pubs[i])
           /\ ~DictHas(area_groups, strip(pubs[i].area.s))
           /\ ~DictHas(small_areas, strip(pubs[i].area.s))
           /\ ~DictHas(large_areas, strip(pubs[i].area.s))

\* C11: a dry run sends no update to the store: the table is what it was when
\* the run began, whatever the plan holds.
C11_DryRunWritesNothing ==
    (dry_run /\ pc # "idle") =>
        /\ calls = <<>>
        /\ store = store0
        /\ updated = 0 /\ failed = 0

\* C11's case: a dry run has ended with a merge in its plan.
C11_Witness == dry_run /\ pc = "done" /\ merges # <<>>

\* The ids of the pubs of the plan, merge after merge, in the order the loops
\* of lines 386 and 390 visit them.
PlanIds ==
    Flatten([i \in 1..Len(merges) |->
                [k |-> merges[i].from_area,
                 v |-> [j \in 1..Len(merges[i].pubs) |-> merges[i].pubs[j].id]]])

\* The row of the table with the given id.
RowWithId(table, pub_id) == table[CHOOSE n \in 1..Len(table) : table[n].id = pub_id]

\* C12: when the changes are applied every pub of every merge gets exactly
\* one update request, in order, whatever became of the earlier ones: a
\* request that returns no row or raises counts as failed for that pub alone
\* and leaves its row as it was, the rows updated before stay updated, and at
\* the end updated + failed is the number of pubs in the plan.
C12_EveryMemberTriedOnce ==
    (~dry_run /\ pc \in {"apply", "done"}) =>
        /\ \A i, j \in 1..Len(PlanIds) : PlanIds[i] = PlanIds[j] => i = j
        /\ Len(calls) <= Len(PlanIds)
        /\ \A i \in 1..Len(calls) :
               /\ calls[i].id = PlanIds[i]
               /\ calls[i].ok =>
                      RowWithId(store, calls[i].id).area = calls[i].payload.area
               /\ ~calls[i].ok =>
                      RowWithId(store, calls[i].id) = RowWithId(store0, calls[i].id)
        /\ updated = Cardinality({ i \in 1..Len(calls) : calls[i].ok })
        /\ failed = Cardinality({ i \in 1..Len(calls) : ~calls[i].ok })
        /\ pc = "done" => /\ Len(calls) = Len(PlanIds)
                          /\ updated + failed = Len(PlanIds)

\* C12's case: the run has ended, a request failed after one that succeeded
\* and before another that succeeded.
C12_Witness ==
    /\ ~dry_run /\ pc = "done"
    /\ \E i, j, n \in 1..Len(calls) :
           i < j /\ j < n /\ calls[i].ok /\ ~calls[j].ok /\ calls[n].ok

\* A borough that counts: text that is not blank and does not spell "none".
UsableBorough(b) ==
    /\ b.t = "str"
    /\ \E i \in 1..Len(b.s) : b.s[i] \notin Whitespace
    /\ strip(b.s) \notin NoneSpellings

\* The merge of the plan that holds the pub with the given id.
MergeOf(pub_id) ==
    merges[CHOOSE i \in 1..Len(merges) :
               \E j \in 1..Len(merges[i].pubs) : merges[i].pubs[j].id = pub_id]

\* The pubs of the area a merge goes to, as grouped.
Destination(merge) == DictGet(area_groups, merge.to_area)

\* C13: when no pub of the area a merge goes to has a usable borough, the
\* merge carries no borough, every update of it writes the area only, and the
\* borough of the row stays what it was; no update writes an empty or missing
\* borough.
C13_NoBoroughWritesAreaOnly ==
    (~dry_run /\ pc \in {"apply", "done"}) =>
        \A i \in 1..Len(calls) :
            LET merge == MergeOf(calls[i].id)
                members == Destination(merge)
            IN  /\ (\A n \in 1..Len(members) : ~UsableBorough(members[n].borough)) =>
                       /\ merge.to_borough = PyNone
                       /\ ~calls[i].payload.has_borough
                       /\ RowWithId(store, calls[i].id).borough
                              = RowWithId(store0, calls[i].id).borough
                /\ calls[i].payload.has_borough =>
                       /\ calls[i].payload.borough.t = "str"
                       /\ calls[i].payload.borough.s # <<>>

\* C13's case: a pub with a borough of its own was merged into an area whose
\* pubs have a borough that is missing or spells "none", and kept its borough.
C13_Witness ==
    /\ ~dry_run /\ pc = "done"
    /\ \E i \in 1..Len(calls) :
           /\ calls[i].ok
           /\ \A n \in 1..Len(Destination(MergeOf(calls[i].id))) :
                  ~UsableBorough(Destination(MergeOf(calls[i].id))[n].borough)
           /\ \E n \in 1..Len(Destination(MergeOf(calls[i].id))) :
                  Destination(MergeOf(calls[i].id))[n].borough.t = "str"
           /\ RowWithId(store, calls[i].id).borough = Str(<<"w">>)

\* How many pubs of an area have the given borough, blanks trimmed.
BoroughCount(members, value) ==
    Cardinality({ n \in 1..Len(members) :
                    UsableBorough(members[n].borough) /\ strip(members[n].borough.s) = value })

\* The usable boroughs of the pubs of an area, blanks trimmed.
BoroughsOf(members) ==
    { strip(members[n].borough.s) :
        n \in { m \in 1..Len(members) : UsableBorough(members[m].borough) } }

\* C14: the borough of a merge is a most common borough of the pubs of the
\* area it goes to, counting trimmed boroughs that are not empty and do not
\* spell "none"; it is None exactly when there is no such borough.
C14_BoroughIsMostCommon ==
    pc = "small" =>
        \A i \in 1..Len(merges) :
            LET members == Destination(merges[i])
            IN  IF BoroughsOf(members) = {}
                THEN merges[i].to_borough = PyNone
                ELSE /\ merges[i].to_borough.t = "str"
                     /\ merges[i].to_borough.s \in BoroughsOf(members)
                     /\ \A b \in BoroughsOf(members) :
                            BoroughCount(members, merges[i].to_borough.s)
                                >= BoroughCount(members, b)

\* C14's case: the borough of the merge is not that of the first pub of the
\* area, which has a usable one, and one of its votes needed trimming.
C14_Witness ==
    /\ pc = "small"
    /\ \E i \in 1..Len(merges) :
           LET members == Destination(merges[i])
           IN  /\ UsableBorough(members[1].borough)
               /\ merges[i].to_borough.t = "str"
               /\ strip(members[1].borough.s) # merges[i].to_borough.s
               /\ \E n \in 1..Len(members) :
                      /\ members[n].borough.t = "str"
                      /\ members[n].borough.s # merges[i].to_borough.s
                      /\ strip(members[n].borough.s) = merges[i].to_borough.s

\* C15: when the changes are applied, a pub of a merge whose update succeeded
\* has in the table the area the merge goes to and, if the merge carries a
\* borough, that borough.
C15_UpdatedRowCarriesMerge ==
    (~dry_run /\ pc \in {"apply", "done"}) =>
        \A i \in 1..Len(calls) :
            calls[i].ok =>
                LET merge == MergeOf(calls[i].id)
                    row == RowWithId(store, calls[i].id)
                IN  /\ row.area = Str(merge.to_area)
                    /\ merge.to_borough # PyNone => row.borough = merge.to_borough

\* C15's case: the run has ended and a pub that had a borough of its own now
\* has the area and the borough of its merge.
C15_Witness ==
    /\ ~dry_run /\ pc = "done"
    /\ \E i \in 1..Len(calls) :
           /\ calls[i].ok
           /\ MergeOf(calls[i].id).to_borough = Str(<<"c">>)
           /\ RowWithId(store0, calls[i].id).borough = Str(<<"w">>)
           /\ RowWithId(store, calls[i].id).borough = Str(<<"c">>)
           /\ RowWithId(store, calls[i].id).area = Str(AreaA)

\* The greatest distance from a pub of a small area that votes for area `to`
\* to its closest large-area pub.
MaxVoteDistance(entry, to) ==
    LET away == { Nearest(entry.v[i], entry.k).distance : i \in Voters(entry, to) }
    IN  CHOOSE d \in away : \A e \in away : e <= d

\* The merges of the plan from a small area, and its entries among the
\* skipped areas (those that are not about one pub).
MergesFrom(label) == { i \in 1..Len(merges) : merges[i].from_area = label }

SkipsOf(label) ==
    { i \in 1..Len(skipped) : skipped[i].area = label /\ ~skipped[i].per_pub }

\* C16: with a range set, a small area with votes is skipped exactly when the
\* greatest distance of the votes for the chosen area is more than the range
\* (a distance equal to the range is accepted); a skipped area has no merge
\* in the plan, one entry among the skipped areas with the range reason, and
\* none of its pubs is updated.
C16_RangeGate ==
    /\ (Deciding /\ max_range_km.t # "None" /\ closest_areas # <<>>) =>
           IF MaxVoteDistance(LastDecided, target_area) > Float(max_range_km)
           THEN /\ MergesFrom(LastDecided.k) = {}
                /\ Cardinality(SkipsOf(LastDecided.k)) = 1
                /\ \A i \in SkipsOf(LastDecided.k) :
                       /\ skipped[i].reason = RangeExceeded
                       /\ skipped[i].pubs = LastDecided.v
           ELSE /\ Cardinality(MergesFrom(LastDecided.k)) = 1
                /\ SkipsOf(LastDecided.k) = {}
    /\ pc \in {"apply", "done"} =>
           \A i \in 1..Len(skipped) :
               skipped[i].reason = RangeExceeded =>
                   \A j \in 1..Len(skipped[i].pubs) :
                       /\ skipped[i].pubs[j].id \notin CalledIds
                       /\ skipped[i].pubs[j].id \notin MergedIds

\* C16's case: the run has ended with updates; one small area was merged at
\* a distance equal to the range and another was skipped for the range.
C16_Witness ==
    /\ ~dry_run /\ pc = "done" /\ calls # <<>>
    /\ max_range_km.t # "None"
    /\ \E i \in 1..Len(merges) : merges[i].max_distance = Float(max_range_km)
    /\ \E i \in 1..Len(skipped) : skipped[i].reason = RangeExceeded

\* The pubs the summary lists as skipped for a reason (lines 370-377).
SkippedFor(reason) ==
    SumSeq([i \in 1..Len(skipped) |->
               IF skipped[i].reason = reason THEN Len(skipped[i].pubs) ELSE 0])

\* C17 (as claimed): the numbers of the summary add up to the number of pubs
\* fetched: the pubs to update, those skipped for want of a large-area pub or
\* of a target, those skipped for the range, and those without coordinates
\* or without a label, of which the summary prints no number; the pubs of
\* large areas, which no merge concerns, are taken as accounted for.
C17_SummaryCountsEveryPub ==
    report.printed =>
        report.total_pubs
            + SkippedFor(NoLargePub) + SkippedFor(NoTarget) + SkippedFor(RangeExceeded)
            + Len(LargePubs)
        = Len(pubs)

\* The labels of the pubs fetched (trimmed, usable) that are not large areas:
\* the small areas, and the labels none of whose pubs has coordinates.
MinorLabels ==
    { strip(pubs[i].area.s) : i \in { n \in 1..Len(pubs) : ~NoLabel(pubs[n]) } }
        \ LargeLabels

\* C18 (as claimed): once the summary is printed every small area, and every
\* label whose pubs all lack coordinates, is accounted for exactly once: by
\* one merge of the plan or by one entry among the skipped areas.
C18_EveryMinorLabelReported ==
    report.printed =>
        \A label \in MinorLabels :
            Cardinality(MergesFrom(label)) + Cardinality(SkipsOf(label)) = 1

\* C19: when a request of fetch_pubs raises after some pages were received,
\* fetch_pubs returns the rows of those pages, in order, and the run goes on
\* with them.
C19_PartialFetch ==
    (fetch_failed /\ pc # "fetch") =>
        /\ start % PAGE_SIZE = 0 /\ start <= Len(store0)
        /\ pubs = SubSeq(store0, 1, start)
        /\ pc \in {"group", "small", "apply", "done"}

\* C19's case: the request raised after at least one page and before the
\* last row, and the run went on to update a pub.
C19_Witness ==
    /\ fetch_failed /\ pc = "done" /\ ~dry_run
    /\ 0 < Len(pubs) /\ Len(pubs) < Len(store0)
    /\ report.printed /\ updated > 0

\* C20: fetch_pubs ends.  While it runs, the rows received are the first
\* `start` rows of the table, `start` a multiple of PAGE_SIZE within the
\* table: the ranges requested follow one another, no row twice and none
\* skipped.  When it ends without a request having raised, after the first
\* page that is empty or short, it returns every row of the table in order.
C20_FetchEnds ==
    /\ [](pc = "fetch" =>
              /\ start % PAGE_SIZE = 0 /\ start <= Len(store)
              /\ rows = SubSeq(store, 1, start))
    /\ []((pc \in {"group", "small", "apply", "done"} /\ ~fetch_failed) =>
              /\ pubs = store0
              /\ Len(store0) - start < PAGE_SIZE)
    /\ (pc = "fetch" ~> pc = "group")

\* C20's case: the table is a whole number of pages and fetch_pubs ended on
\* an empty page, after more than one full page.
C20_Witness ==
    /\ pc = "group" /\ ~fetch_failed
    /\ start = Len(store) /\ start > PAGE_SIZE


\* C21: when no pub is fetched (the table has no row, or the first request
\* raises) the run says so and returns: nothing is grouped, there is no
\* plan and no summary, and no update is sent.
C21_NothingFetched ==
    (pubs = <<>> /\ pc \in {"small", "apply", "done"}) =>
        /\ pc = "done"
        /\ notice = NoPubsFound
        /\ area_groups = <<>> /\ small_areas = <<>> /\ large_areas = <<>>
        /\ merges = <<>> /\ skipped = <<>> /\ ~report.printed
        /\ calls = <<>> /\ store = store0
        /\ updated = 0 /\ failed = 0

\* C21's case: the first request raised on a table with rows and the run has
\* returned.
C21_Witness ==
    /\ pc = "done" /\ pubs = <<>>
    /\ fetch_failed /\ store # <<>>


\* The run found small areas and no large area.
NoMajor == pc = "done" /\ pubs # <<>> /\ small_areas # <<>> /\ large_areas = <<>>

\* The pubs the run reported one by one as having no large-area pub.
ReportedAlone ==
    { skipped[i].pubs[1].id :
        i \in { n \in 1..Len(skipped) : skipped[n].per_pub /\ skipped[n].reason = NoLargePub } }

\* C22 (as claimed): when there are small areas and no large area, every pub
\* (with coordinates) of every small area is reported as having no
\* large-area pub and counted among the skipped of the summary; there is no
\* merge and no update.
C22_NoMajorEveryMemberReported ==
    NoMajor =>
        /\ \A a \in 1..Len(small_areas) : \A j \in 1..Len(small_areas[a].v) :
               small_areas[a].v[j].id \in ReportedAlone
        /\ report.printed /\ report.areas_skipped > 0
        /\ merges = <<>> /\ calls = <<>> /\ store = store0

\* The run applies its plan and is between two update requests (or has sent
\* the last one): the states in which an interruption leaves the table.
BetweenUpdates == ~dry_run /\ pc = "apply"

\* The pubs of the plan whose row is no longer what it was when the run began.
ChangedIds ==
    { PlanIds[k] : k \in { n \in 1..Len(PlanIds) :
                             RowWithId(store, PlanIds[n]) # RowWithId(store0, PlanIds[n]) } }

\* The row of a pub of the plan holds what one update of its merge writes:
\* the area, the borough if the merge carries one, and the rest as it was.
FullyUpdated(pub_id) ==
    LET merge == MergeOf(pub_id)
        row == RowWithId(store, pub_id)
        row0 == RowWithId(store0, pub_id)
    IN  row = [row0 EXCEPT !.area = Str(merge.to_area),
                           !.borough = IF Truthy(merge.to_borough)
                                       THEN merge.to_borough ELSE @]

\* C23 (amended): between two update requests the pubs a request was sent for
\* are a prefix of the plan in the order of its loops; of these, a pub whose
\* request succeeded is fully updated (area, and borough when the merge
\* carries one, by that one request) and a pub whose request failed is as it
\* was; every other row of the table is as it was when the run began.
C23_RequestedIsPrefix ==
    BetweenUpdates =>
        /\ Len(store) = Len(store0)
        /\ Len(calls) <= Len(PlanIds)
        /\ \A k \in 1..Len(calls) :
               /\ calls[k].id = PlanIds[k]
               /\ IF calls[k].ok
                  THEN FullyUpdated(PlanIds[k])
                  ELSE RowWithId(store, PlanIds[k]) = RowWithId(store0, PlanIds[k])
        /\ \A n \in 1..Len(store) :
               store[n].id \notin { calls[k].id : k \in 1..Len(calls) }
                   => store[n] = store0[n]

\* C23 (as claimed): between two update requests every pub of the plan is
\* fully updated or as it was, and the updated pubs are a prefix of the plan.
C23_UpdatedIsPrefix ==
    BetweenUpdates =>
        /\ \A k \in 1..Len(PlanIds) :
               \/ FullyUpdated(PlanIds[k])
               \/ RowWithId(store, PlanIds[k]) = RowWithId(store0, PlanIds[k])
        /\ \E n \in 0..Len(PlanIds) : ChangedIds = { PlanIds[k] : k \in 1..n }

\* C23's case: a request failed, a later one succeeded, and a pub of the
\* plan is still to come.
C23_Witness ==
    /\ BetweenUpdates
    /\ Len(calls) < Len(PlanIds)
    /\ \E i, j \in 1..Len(calls) : i < j /\ ~calls[i].ok /\ calls[j].ok

\* C24: a run adds no row to the table and removes none, and writes nothing
\* but area and borough: the rows are those the run began with, in the same
\* places, each with the id, the latitude and the longitude it had.
C24_OnlyAreaAndBoroughWritten ==
    /\ Len(store) = Len(store0)
    /\ \A n \in 1..Len(store) :
           /\ store[n].id = store0[n].id
           /\ store[n].lat = store0[n].lat
           /\ store[n].lon = store0[n].lon
    /\ { store[n].id : n \in 1..Len(store) } = 1..Len(store)

\* C24's case: the run has ended and wrote a new area and a new borough to a row.
C24_Witness ==
    /\ pc = "done" /\ ~dry_run
    /\ \E n \in 1..Len(store) :
           /\ store[n].area # store0[n].area
           /\ store[n].borough # store0[n].borough

RECURSIVE PlanOf(_, _, _, _)
\* The merges that the small areas given lead to, one after another, each
\* decided from the groups and the large areas alone.
PlanOf(small, large, groups, range) ==
    IF small = <<>> THEN <<>>
    ELSE process_small_area(Head(small).k, Head(small).v, Flatten(large), groups, range).merges
         \o PlanOf(Tail(small), large, groups, range)

\* C25: the decisions are computed from the pubs fetched when the run began:
\* the first update request is sent after the last small area has been
\* decided, and at any time the merges are what each small area decided so
\* far leads to, taken on its own, from the groups of the pubs fetched;
\* neither the merges of the other small areas nor what the updates did to
\* the table play a part.
C25_DecisionsFromSnapshot ==
    /\ calls # <<>> => pc \in {"apply", "done"} /\ next_small > Len(small_areas)
    /\ (Classified /\ notice = NoNotice) =>
           LET groups == group_pubs_by_area(pubs)
               small == SmallAreas(groups, min_pubs)
               large == LargeAreas(groups, min_pubs)
           IN  /\ pubs = SubSeq(store0, 1, Len(pubs))
               /\ merges = PlanOf(SubSeq(small, 1, next_small - 1), large, groups,
                                  max_range_km)

\* C25's case: the plan has two merges, the first of them is applied and has
\* changed the table, and the update of the second is still to come.
C25_Witness ==
    /\ pc = "apply" /\ Len(merges) >= 2
    /\ next_merge = 2 /\ next_pub = 1
    /\ store # store0

\* The pubs fetched whose coordinates are numbers.
Located == { pubs[i] : i \in { n \in 1..Len(pubs) : Numeric(pubs[n].lat) /\ Numeric(pubs[n].lon) } }

\* C26: haversine_distance is symmetric: the distance the search computed
\* from a pub of a small area to its closest large-area pub is the distance
\* from that pub back to it, and so for any two pubs fetched.
C26_DistanceSymmetric ==
    /\ Deciding =>
           \A i \in 1..Len(closest_areas) : \A j \in 1..Len(closest_areas[i].v) :
               LET vote == closest_areas[i].v[j]
               IN  vote.distance = Dist(RowWithId(pubs, vote.closest_pub), vote.pub)
    /\ (pc = "small" /\ next_small = 1) =>
           \A p, q \in Located : Dist(p, q) = Dist(q, p)

\* C26's case: the search measured a distance between two pubs that differ
\* in latitude and in longitude.
C26_Witness ==
    /\ Deciding
    /\ \E i \in 1..Len(closest_areas) : \E j \in 1..Len(closest_areas[i].v) :
           LET vote == closest_areas[i].v[j]
               to == RowWithId(pubs, vote.closest_pub)
           IN  /\ Float(to.lat) # Float(vote.pub.lat)
               /\ Float(to.lon) # Float(vote.pub.lon)
               /\ vote.distance > 0

\* The number of pubs grouped under a label.
GroupSize(label) == IF DictHas(area_groups, label) THEN Len(DictGet(area_groups, label)) ELSE 0

\* C27: every merge of the plan goes from a small area (a group of fewer
\* than min_pubs pubs) to a large area (a group of at least min_pubs pubs),
\* and the two differ; a small area is never the area a merge goes to.
C27_SmallIntoLarge ==
    \A i \in 1..Len(merges) :
        /\ 1 <= GroupSize(merges[i].from_area)
        /\ GroupSize(merges[i].from_area) < min_pubs
        /\ GroupSize(merges[i].to_area) >= min_pubs
        /\ merges[i].to_area # merges[i].from_area
        /\ DictHas(small_areas, merges[i].from_area)
        /\ DictHas(large_areas, merges[i].to_area)
        /\ ~DictHas(small_areas, merges[i].to_area)
        /\ ~DictHas(large_areas, merges[i].from_area)

\* C27's case: two small areas that together have min_pubs pubs are both in
\* the plan, and a pub of one is closer to a pub of the other than to the
\* large area it goes to.
C27_Witness ==
    /\ PlanComplete
    /\ \E i, j \in 1..Len(merges) :
           /\ i # j
           /\ GroupSize(merges[i].from_area) + GroupSize(merges[j].from_area) >= min_pubs
           /\ \E p \in SeqToSet(merges[i].pubs) : \E q \in SeqToSet(merges[j].pubs) :
                  Dist(p, q) < merges[i].max_distance

\* The groups of at least min_pubs pubs, and the ids of their pubs.
MajorGroups == { a \in 1..Len(area_groups) : Len(area_groups[a].v) >= min_pubs }

MajorIds ==
    UNION { { area_groups[a].v[j].id : j \in 1..Len(area_groups[a].v) } : a \in MajorGroups }

MinorIds ==
    UNION { { area_groups[a].v[j].id : j \in 1..Len(area_groups[a].v) } :
            a \in (1..Len(area_groups)) \ MajorGroups }

\* The number of pubs the table now holds under a label, counted as
\* group_pubs_by_area counts them.
MembersNow(label) ==
    LET now == group_pubs_by_area(store)
    IN  IF DictHas(now, label) THEN Len(DictGet(now, label)) ELSE 0

\* C28: no pub of a large area is updated: every update request is for a pub
\* grouped (so with coordinates) under a small area, the rows of the pubs of
\* the large areas stay what they were, and no large area has fewer pubs in
\* the table than it had when grouped.
C28_LargeAreasUntouched ==
    (Classified /\ pc \in {"apply", "done"}) =>
        /\ CalledIds \subseteq MinorIds
        /\ CalledIds \cap MajorIds = {}
        /\ \A a \in MajorGroups :
               /\ \A j \in 1..Len(area_groups[a].v) :
                      RowWithId(store, area_groups[a].v[j].id) = area_groups[a].v[j]
               /\ MembersNow(area_groups[a].k) >= Len(area_groups[a].v)

\* C28's case: the run has ended, there are two large areas, and one of them
\* has more pubs in the table than it had when grouped.
C28_Witness ==
    /\ Classified /\ pc = "done" /\ updated > 0
    /\ Cardinality(MajorGroups) >= 2
    /\ \E a \in MajorGroups : MembersNow(area_groups[a].k) > Len(area_groups[a].v)

\* C29: in one run a pub is in at most one group, a small area leads to at
\* most one merge, a pub is in the pubs of at most one merge and there once,
\* and a pub gets at most one update request.
C29_AtMostOnce ==
    Classified =>
        /\ \A a, b \in 1..Len(area_groups) :
               \A i \in 1..Len(area_groups[a].v) : \A j \in 1..Len(area_groups[b].v) :
                   area_groups[a].v[i].id = area_groups[b].v[j].id => (a = b /\ i = j)
        /\ \A i, j \in 1..Len(merges) :
               merges[i].from_area = merges[j].from_area => i = j
        /\ \A i, j \in 1..Len(PlanIds) : PlanIds[i] = PlanIds[j] => i = j
        /\ \A i, j \in 1..Len(calls) : calls[i].id = calls[j].id => i = j

\* C29's case: the run has ended after a request for every pub of a plan of
\* two merges, one of them of two pubs.
C29_Witness ==
    /\ Classified /\ pc = "done" /\ ~dry_run
    /\ Len(merges) >= 2
    /\ \E i \in 1..Len(merges) : Len(merges[i].pubs) >= 2
    /\ Len(calls) = Len(PlanIds)

\* The number of pubs of a table that sit in small areas, grouped and split
\* as the run groups and splits the pubs it fetches.
MinorCount(table) ==
    Len(Flatten(SmallAreas(group_pubs_by_area(table), min_pubs)))

\* The run applied a plan that is not empty, without a range, and every
\* update succeeded.
AppliedCleanly ==
    /\ pc = "done" /\ ~dry_run /\ Classified
    /\ max_range_km = PyNone
    /\ merges # <<>> /\ failed = 0

==========================================================================
